---------------------------- MODULE Spec2Model ----------------------------
(***************************************************************************)
(* Model of main.py of zugferd-api: the POST /generate-validated-invoice   *)
(* handler (generate_validated_invoice), the ZUGFeRD XML generator         *)
(* (generate_zugferd_xml) and the PDF packaging (generate_pdf_with_zugferd).*)
(*                                                                         *)
(* Amounts are Python floats (IEEE-754 binary64).  They are modelled       *)
(* exactly: a float is a sign, a 53-bit significand held as a sequence of  *)
(* 15-bit limbs (TLC integers are 32 bits wide) and a binary exponent;     *)
(* every arithmetic result is rounded to nearest, ties to even.            *)
(* Exponent overflow, subnormals, NaN and infinities are outside the       *)
(* amounts enumerated here and are not modelled.                           *)
(*                                                                         *)
(* A Python str is a sequence of chunks (TLA+ strings).  Strings the code  *)
(* takes apart (dates, formatted numbers) have one character per chunk;    *)
(* strings it only copies are a single chunk.                              *)
(***************************************************************************)
EXTENDS Integers, Sequences, FiniteSets, TLC

(***************************************************************************)
(* Natural numbers of arbitrary size: little-endian limbs in base 2^15.    *)
(***************************************************************************)
LimbBits == 14 + 1

Base == 2 ^ LimbBits

Max(a, b) == IF a >= b THEN a ELSE b

Min(a, b) == IF a <= b THEN a ELSE b

RECURSIVE BnNorm(_)
BnNorm(a) ==
    IF a = <<>> THEN <<>>
    ELSE IF a[Len(a)] = 0 THEN BnNorm(SubSeq(a, 1, Len(a) - 1))
    ELSE a

RECURSIVE BnFromInt(_)
BnFromInt(n) ==
    IF n = 0 THEN <<>> ELSE <<n % Base>> \o BnFromInt(n \div Base)

RECURSIVE BnToInt(_)
BnToInt(a) ==
    IF a = <<>> THEN 0 ELSE a[1] + Base * BnToInt(Tail(a))

Limb(a, i) == IF i <= Len(a) THEN a[i] ELSE 0

RECURSIVE BnAddFrom(_, _, _, _)
BnAddFrom(a, b, i, c) ==
    IF i > Max(Len(a), Len(b))
    THEN (IF c = 0 THEN <<>> ELSE <<c>>)
    ELSE LET s == Limb(a, i) + Limb(b, i) + c
         IN  <<s % Base>> \o BnAddFrom(a, b, i + 1, s \div Base)

BnAdd(a, b) == BnAddFrom(a, b, 1, 0)

RECURSIVE BnSubFrom(_, _, _, _)
BnSubFrom(a, b, i, c) ==
    IF i > Len(a) THEN <<>>
    ELSE LET d == Limb(a, i) - Limb(b, i) - c
         IN  IF d < 0 THEN <<d + Base>> \o BnSubFrom(a, b, i + 1, 1)
             ELSE <<d>> \o BnSubFrom(a, b, i + 1, 0)

\* a - b for a >= b
BnSub(a, b) == BnNorm(BnSubFrom(a, b, 1, 0))

RECURSIVE BnCmpFrom(_, _, _)
BnCmpFrom(a, b, i) ==
    IF i = 0 THEN 0
    ELSE IF Limb(a, i) > Limb(b, i) THEN 1
    ELSE IF Limb(a, i) < Limb(b, i) THEN -1
    ELSE BnCmpFrom(a, b, i - 1)

\* -1, 0 or 1 as a < b, a = b or a > b
BnCmp(a, b) == BnCmpFrom(a, b, Max(Len(a), Len(b)))

RECURSIVE BnMulSmallFrom(_, _, _, _)
BnMulSmallFrom(a, k, i, c) ==
    IF i > Len(a) THEN (IF c = 0 THEN <<>> ELSE <<c>>)
    ELSE LET p == a[i] * k + c
         IN  <<p % Base>> \o BnMulSmallFrom(a, k, i + 1, p \div Base)

\* a * k for 0 <= k < Base
BnMulSmall(a, k) == BnNorm(BnMulSmallFrom(a, k, 1, 0))

Zeros(n) == [i \in 1..n |-> 0]

RECURSIVE BnMulFrom(_, _, _)
BnMulFrom(a, b, i) ==
    IF i > Len(a) THEN <<>>
    ELSE BnAdd(IF a[i] = 0 THEN <<>> ELSE Zeros(i - 1) \o BnMulSmall(b, a[i]),
               BnMulFrom(a, b, i + 1))

BnMul(a, b) == BnNorm(BnMulFrom(a, b, 1))

RECURSIVE BnDivSmallFrom(_, _, _, _)
BnDivSmallFrom(a, k, i, r) ==
    IF i = 0 THEN [q |-> <<>>, r |-> r]
    ELSE LET cur  == r * Base + a[i]
             rest == BnDivSmallFrom(a, k, i - 1, cur % k)
         IN  [q |-> rest.q \o <<cur \div k>>, r |-> rest.r]

\* quotient and remainder of a by k, 0 < k <= Base
BnDivSmall(a, k) ==
    LET d == BnDivSmallFrom(a, k, Len(a), 0)
    IN  [q |-> BnNorm(d.q), r |-> d.r]

RECURSIVE IntBitLen(_)
IntBitLen(n) == IF n = 0 THEN 0 ELSE 1 + IntBitLen(n \div 2)

BnBitLen(a) ==
    IF a = <<>> THEN 0 ELSE (Len(a) - 1) * LimbBits + IntBitLen(a[Len(a)])

\* a * 2^n
BnShl(a, n) ==
    IF a = <<>> THEN <<>>
    ELSE Zeros(n \div LimbBits) \o BnMulSmall(a, 2 ^ (n % LimbBits))

\* floor(a / 2^n)
BnShr(a, n) ==
    IF n \div LimbBits >= Len(a) THEN <<>>
    ELSE BnDivSmall(SubSeq(a, (n \div LimbBits) + 1, Len(a)), 2 ^ (n % LimbBits)).q

BnOdd(a) == a # <<>> /\ a[1] % 2 = 1

\* a / 2^n rounded to the nearest integer, ties to even; sticky says that
\* a itself was truncated from a larger value
BnRoundShr(a, n, sticky) ==
    IF n = 0 THEN a
    ELSE LET q    == BnShr(a, n)
             r    == BnSub(a, BnShl(q, n))
             half == BnShl(<<1>>, n - 1)
             c    == BnCmp(r, half)
             up   == c = 1 \/ (c = 0 /\ (sticky \/ BnOdd(q)))
         IN  IF up THEN BnAdd(q, <<1>>) ELSE q

(***************************************************************************)
(* Python float: [s, m, e] is (-1)^s * m * 2^e, m = <<>> (zero) or a       *)
(* significand of exactly MantBits bits.                                   *)
(***************************************************************************)
MantBits == 53

FZero(s) == [s |-> s, m |-> <<>>, e |-> 0]

\* the float nearest to (-1)^s * (n + sticky fraction) * 2^e
RoundToFloat(s, n, e, sticky) ==
    LET bl == BnBitLen(n)
    IN  IF n = <<>> THEN FZero(s)
        ELSE IF bl <= MantBits
        THEN [s |-> s, m |-> BnShl(n, MantBits - bl), e |-> e - (MantBits - bl)]
        ELSE LET k == bl - MantBits
                 q == BnRoundShr(n, k, sticky)
             IN  IF BnBitLen(q) > MantBits
                 THEN [s |-> s, m |-> BnShr(q, 1), e |-> e + k + 1]
                 ELSE [s |-> s, m |-> q, e |-> e + k]

\* the float a decimal literal or JSON number num/den denotes (correctly
\* rounded, as float() and the parser do), 0 <= num, 0 < den <= Base
FromDecimal(s, num, den) ==
    LET d == BnDivSmall(BnShl(BnFromInt(num), 5 * LimbBits), den)
    IN  RoundToFloat(s, d.q, -(5 * LimbBits), d.r # 0)

\* a JSON amount with two decimals, given in hundredths
FromCents(c) == IF c < 0 THEN FromDecimal(1, -c, 100) ELSE FromDecimal(0, c, 100)

FNeg(a) == [a EXCEPT !.s = 1 - a.s]

FAbs(a) == [a EXCEPT !.s = 0]

FMul(a, b) ==
    IF a.m = <<>> \/ b.m = <<>> THEN FZero((a.s + b.s) % 2)
    ELSE RoundToFloat((a.s + b.s) % 2, BnMul(a.m, b.m), a.e + b.e, FALSE)

\* the exact sum a + b as sign, magnitude and exponent
ExactAdd(a, b) ==
    IF a.m = <<>> /\ b.m = <<>> THEN [s |-> IF a.s = 1 /\ b.s = 1 THEN 1 ELSE 0, n |-> <<>>, e |-> 0]
    ELSE IF a.m = <<>> THEN [s |-> b.s, n |-> b.m, e |-> b.e]
    ELSE IF b.m = <<>> THEN [s |-> a.s, n |-> a.m, e |-> a.e]
    ELSE LET e  == Min(a.e, b.e)
             x  == BnShl(a.m, a.e - e)
             y  == BnShl(b.m, b.e - e)
             c  == BnCmp(x, y)
         IN  IF a.s = b.s THEN [s |-> a.s, n |-> BnAdd(x, y), e |-> e]
             ELSE IF c = 0 THEN [s |-> 0, n |-> <<>>, e |-> 0]
             ELSE IF c = 1 THEN [s |-> a.s, n |-> BnSub(x, y), e |-> e]
             ELSE [s |-> b.s, n |-> BnSub(y, x), e |-> e]

FSub(a, b) ==
    LET d == ExactAdd(a, FNeg(b))
    IN  RoundToFloat(d.s, d.n, d.e, FALSE)

\* a > b
FGt(a, b) ==
    LET d == ExactAdd(a, FNeg(b))
    IN  d.n # <<>> /\ d.s = 0

\* a * 100 rounded to the nearest integer, ties to even, on the exact value
\* of a: the digits that round(a, 2) and format(a, ".2f") keep
Hundredths(a) ==
    LET n == BnMulSmall(a.m, 100)
    IN  BnToInt(IF a.e >= 0 THEN BnShl(n, a.e) ELSE BnRoundShr(n, -a.e, FALSE))

\* round(a, 2)
Round2(a) == FromDecimal(a.s, Hundredths(a), 100)

Digit == <<"0", "1", "2", "3", "4", "5", "6", "7", "8", "9">>

RECURSIVE DecimalDigits(_)
\* str(n) for an int n >= 0
DecimalDigits(n) ==
    IF n < 10 THEN <<Digit[n + 1]>>
    ELSE DecimalDigits(n \div 10) \o <<Digit[(n % 10) + 1]>>

\* f"{a:.2f}"
Format2f(a) ==
    LET h == Hundredths(a)
    IN  (IF a.s = 1 THEN <<"-">> ELSE <<>>)
        \o DecimalDigits(h \div 100)
        \o <<".", Digit[((h % 100) \div 10) + 1], Digit[(h % 10) + 1]>>

\* str() of a float that is the nearest float to a number with at most two
\* decimals (every float of this model): the shortest digits that read back
ReprFloat(a) ==
    LET h == Hundredths(a)
    IN  (IF a.s = 1 THEN <<"-">> ELSE <<>>)
        \o DecimalDigits(h \div 100)
        \o <<".", Digit[((h % 100) \div 10) + 1]>>
        \o (IF h % 10 = 0 THEN <<>> ELSE <<Digit[(h % 10) + 1]>>)

(***************************************************************************)
(* Requests.  A JSON body gives amounts in hundredths; quantity is a       *)
(* sequence of zero or one value (the field may be left out).              *)
(***************************************************************************)
MaxItems == 3

Date_20240105 == <<"2", "0", "2", "4", "-", "0", "1", "-", "0", "5">>

Date_20240204 == <<"2", "0", "2", "4", "-", "0", "2", "-", "0", "4">>

Date_20231231 == <<"2", "0", "2", "3", "-", "1", "2", "-", "3", "1">>

Date_Slashes == <<"2", "0", "2", "4", "/", "0", "1", "/", "0", "5">>

InvoiceDates == {Date_20240105, Date_Slashes}

DueDates == {Date_20240204, Date_20231231}

RawItems ==
    { [description |-> <<"Consulting">>, price |-> 10000, quantity |-> <<100>>],
      [description |-> <<"Hosting">>,    price |-> 0,     quantity |-> <<>>],
      [description |-> <<"Refund">>,     price |-> -500,  quantity |-> <<0>>] }

RawItemLists == UNION { [1..n -> RawItems] : n \in 0..MaxItems }

Totals == {0, 150, 10000, 11900}

Taxes == {0, 28, 29, 1000, 1900, 1901, 1902, 2261}

Requests ==
    [ customer_name    : {<<"ACME GmbH">>},
      customer_address : {<<"Hauptstr. 1, 10115 Berlin">>},
      country_code     : {<<"DE">>},
      vat_id           : {<<"DE123456789">>},
      invoice_number   : {<<"INV-0001">>},
      invoice_date     : InvoiceDates,
      due_date         : DueDates,
      items            : RawItemLists,
      total_amount     : Totals,
      tax_amount       : Taxes ]

\* class Item(BaseModel)
Item(raw) ==
    [ description |-> raw.description,
      price       |-> FromCents(raw.price),
      quantity    |-> IF raw.quantity = <<>> THEN FromDecimal(0, 1, 1)
                      ELSE FromCents(raw.quantity[1]) ]

\* class InvoiceData(BaseModel)
InvoiceData(raw) ==
    [ customer_name    |-> raw.customer_name,
      customer_address |-> raw.customer_address,
      country_code     |-> raw.country_code,
      vat_id           |-> raw.vat_id,
      invoice_number   |-> raw.invoice_number,
      invoice_date     |-> raw.invoice_date,
      due_date         |-> raw.due_date,
      items            |-> [i \in 1..Len(raw.items) |-> Item(raw.items[i])],
      total_amount     |-> FromCents(raw.total_amount),
      tax_amount       |-> FromCents(raw.tax_amount) ]

(***************************************************************************)
(* lxml element trees.  A tree is the sequence of its nodes in creation    *)
(* order, each with the index of its parent (0 for the root); document     *)
(* order is the pre-order walk, children in the order they were appended.  *)
(* generate_zugferd_xml is a list of statements                            *)
(*     var = ET.SubElement(parent, tag, **attrib); var.text = text         *)
(* run against an environment that binds the function's local variables   *)
(* to nodes ("_" for a result that is not kept).                           *)
(***************************************************************************)
NoAttrib == <<>>

\* root = ET.Element(tag, attrib=attrib): node 1
Element(tag, attrib) == [tag |-> tag, parent |-> 0, attrib |-> attrib, text |-> <<>>]

Stmt(var, parent, tag, attrib, text) ==
    [var |-> var, parent |-> parent, tag |-> tag, attrib |-> attrib, text |-> text]

RECURSIVE Bound(_, _, _)
\* the node that local variable v names after the first k statements: the
\* one made by the last of them that assigns v (statement j makes node j + 1)
Bound(stmts, k, v) ==
    IF k = 0 THEN (IF v = "root" THEN 1 ELSE 0)
    ELSE IF stmts[k].var = v THEN k + 1
    ELSE Bound(stmts, k - 1, v)

\* ET.SubElement appends the new node to the children of the node that
\* its parent variable names when statement k runs
SubElement(stmts, k) ==
    [ tag    |-> stmts[k].tag,
      parent |-> Bound(stmts, k - 1, stmts[k].parent),
      attrib |-> stmts[k].attrib,
      text   |-> stmts[k].text ]

\* the nodes after running all statements on the root
Exec(root, stmts) ==
    <<root>> \o [k \in 1..Len(stmts) |-> SubElement(stmts, k)]

RECURSIVE StrReplace(_, _)
\* s.replace(old, ""), old a single character
StrReplace(s, old) ==
    IF s = <<>> THEN <<>>
    ELSE (IF Head(s) = old THEN <<>> ELSE <<Head(s)>>) \o StrReplace(Tail(s), old)

\* lines 45-48: 1. Document Context
DocumentContext ==
    << Stmt("context", "root", "rsm:ExchangedDocumentContext", NoAttrib, <<>>),
       Stmt("guideline", "context", "ram:GuidelineSpecifiedDocumentContextParameter", NoAttrib, <<>>),
       Stmt("_", "guideline", "ram:ID", NoAttrib, <<"urn:zugferd.de:2p1:basic">>) >>

\* lines 50-58: 2. Document Header
DocumentHeader(invoice) ==
    << Stmt("header", "root", "rsm:ExchangedDocument", NoAttrib, <<>>),
       Stmt("_", "header", "ram:ID", NoAttrib, invoice.invoice_number),
       Stmt("_", "header", "ram:TypeCode", NoAttrib, <<"380">>),
       Stmt("_", "header", "ram:Name", NoAttrib, <<"RECHNUNG">>),
       Stmt("issue_date", "header", "ram:IssueDateTime", NoAttrib, <<>>),
       Stmt("_", "issue_date", "udt:DateTimeString", <<<<"format", "102">>>>,
            StrReplace(invoice.invoice_date, "-")) >>

\* lines 60-74: 3. Supply Chain Details (Seller + Buyer)
TradeAgreement(invoice) ==
    << Stmt("transaction", "root", "rsm:SupplyChainTradeTransaction", NoAttrib, <<>>),
       Stmt("agreement", "transaction", "ram:ApplicableHeaderTradeAgreement", NoAttrib, <<>>),
       Stmt("seller", "agreement", "ram:SellerTradeParty", NoAttrib, <<>>),
       Stmt("_", "seller", "ram:Name", NoAttrib, <<"Your Company Name">>),
       Stmt("_", "seller", "ram:SpecifiedLegalOrganization", NoAttrib, <<"Your Company Legal Info">>),
       Stmt("buyer", "agreement", "ram:BuyerTradeParty", NoAttrib, <<>>),
       Stmt("_", "buyer", "ram:Name", NoAttrib, invoice.customer_name),
       Stmt("postal", "buyer", "ram:PostalTradeAddress", NoAttrib, <<>>),
       Stmt("_", "postal", "ram:LineOne", NoAttrib, invoice.customer_address),
       Stmt("_", "postal", "ram:CountryID", NoAttrib, invoice.country_code) >>

\* lines 78-86: the body of the loop, for the line identifier id
LineItemBlock(id, item) ==
    << Stmt("line_item", "transaction", "ram:IncludedSupplyChainTradeLineItem", NoAttrib, <<>>),
       Stmt("_", "line_item", "ram:AssociatedDocumentLineDocument", NoAttrib, id),
       Stmt("product", "line_item", "ram:SpecifiedTradeProduct", NoAttrib, <<>>),
       Stmt("_", "product", "ram:Name", NoAttrib, item.description),
       Stmt("agreement", "line_item", "ram:SpecifiedLineTradeAgreement", NoAttrib, <<>>),
       Stmt("price", "agreement", "ram:NetPriceProductTradePrice", NoAttrib, <<>>),
       Stmt("_", "price", "ram:ChargeAmount", NoAttrib, Format2f(item.price)) >>

\* a loop that numbers the items from 0
LineItemFromZero(idx, item) == LineItemBlock(DecimalDigits(idx - 1), item)

\* lines 77-79: idx counts from 1 (enumerate(..., start=1)), the identifier is str(idx)
LineItem(idx, item) == LineItemBlock(DecimalDigits(idx), item)

RECURSIVE LineItems(_, _)
\* line 77: for idx, item in enumerate(invoice.items, start=1), from idx on
LineItems(items, idx) ==
    IF idx > Len(items) THEN <<>>
    ELSE LineItem(idx, items[idx]) \o LineItems(items, idx + 1)

\* lines 88-103: 5. Tax Summary, 6. Payment Terms
TradeSettlement(invoice) ==
    << Stmt("settlement", "transaction", "ram:ApplicableHeaderTradeSettlement", NoAttrib, <<>>),
       Stmt("_", "settlement", "ram:TaxCurrencyCode", NoAttrib, <<"EUR">>),
       Stmt("tax", "settlement", "ram:ApplicableTradeTax", NoAttrib, <<>>),
       Stmt("_", "tax", "ram:CalculatedAmount", NoAttrib, Format2f(invoice.tax_amount)),
       Stmt("_", "tax", "ram:TypeCode", NoAttrib, <<"VAT">>),
       Stmt("_", "tax", "ram:BasisAmount", NoAttrib,
            Format2f(FSub(invoice.total_amount, invoice.tax_amount))),
       Stmt("_", "tax", "ram:CategoryCode", NoAttrib, <<"S">>),
       Stmt("_", "tax", "ram:RateApplicablePercent", NoAttrib, <<"19.00">>),
       Stmt("payment_terms", "settlement", "ram:SpecifiedTradePaymentTerms", NoAttrib, <<>>),
       Stmt("due_date", "payment_terms", "ram:DueDateDateTime", NoAttrib, <<>>),
       Stmt("_", "due_date", "udt:DateTimeString", <<<<"format", "102">>>>,
            StrReplace(invoice.due_date, "-")) >>

\* the settlement block written before the loop over the items
StatementsSettlementFirst(invoice) ==
    DocumentContext
    \o DocumentHeader(invoice)
    \o TradeAgreement(invoice)
    \o TradeSettlement(invoice)
    \o LineItems(invoice.items, 1)

\* the statements of generate_zugferd_xml after the root is made
Statements(invoice) ==
    DocumentContext
    \o DocumentHeader(invoice)
    \o TradeAgreement(invoice)
    \o LineItems(invoice.items, 1)
    \o TradeSettlement(invoice)

\* the tree generate_zugferd_xml builds
InvoiceTree(invoice) ==
    Exec(Element("rsm:CrossIndustryInvoice",
                 <<<<"xsi:schemaLocation",
                     "urn:un:unece:uncefact:data:standard:CrossIndustryInvoice:100 ../ZUGFeRD2p1.xsd">>>>),
         Statements(invoice))

(***************************************************************************)
(* ET.tostring: the document as a sequence of tokens, the XML declaration  *)
(* first, then each element's start tag, text and end tag in document      *)
(* order.  Indentation and the escaping of text are left out.              *)
(***************************************************************************)
Token(k, tag, attrib, text) == [k |-> k, tag |-> tag, attrib |-> attrib, text |-> text]

\* the indices of node i's children, in the order they were appended
Children(tree, i) ==
    SelectSeq([j \in 1..Len(tree) |-> j], LAMBDA j : tree[j].parent = i)

RECURSIVE SerNode(_, _)
RECURSIVE SerNodes(_, _)
SerNodes(tree, kids) ==
    IF kids = <<>> THEN <<>>
    ELSE SerNode(tree, Head(kids)) \o SerNodes(tree, Tail(kids))

SerNode(tree, i) ==
    <<Token("start", tree[i].tag, tree[i].attrib, <<>>)>>
    \o (IF tree[i].text = <<>> THEN <<>>
        ELSE <<Token("text", tree[i].tag, NoAttrib, tree[i].text)>>)
    \o SerNodes(tree, Children(tree, i))
    \o <<Token("end", tree[i].tag, NoAttrib, <<>>)>>

tostring(tree) ==
    <<Token("decl", "xml", <<<<"version", "1.0">>, <<"encoding", "utf-8">>>>, <<>>)>>
    \o SerNode(tree, 1)

generate_zugferd_xml(invoice) == tostring(InvoiceTree(invoice))

\* str.encode(): the UTF-8 bytes of a str
Encode(s) == [encoding |-> "utf-8", str |-> s]

(***************************************************************************)
(* reportlab: the base document, as its metadata and the strings drawn     *)
(* (the euro sign is written EUR).                                         *)
(***************************************************************************)
RECURSIVE DrawItems(_, _, _)
DrawItems(items, i, y) ==
    IF i > Len(items) THEN <<>>
    ELSE <<[x |-> 100, y |-> y,
            text |-> items[i].description \o <<" - ">> \o ReprFloat(items[i].quantity)
                     \o <<"x EUR">> \o Format2f(items[i].price)]>>
         \o DrawItems(items, i + 1, y - 20)

Canvas(invoice) ==
    LET y == 700 - 20 * Len(invoice.items)
    IN  [ title   |-> <<"ZUGFeRD Invoice">>,
          author  |-> <<"Your Company">>,
          subject |-> <<"Invoice ">> \o invoice.invoice_number,
          page    |->
            << [x |-> 100, y |-> 800, text |-> <<"Invoice">>],
               [x |-> 100, y |-> 770, text |-> <<"Invoice Number: ">> \o invoice.invoice_number],
               [x |-> 100, y |-> 750, text |-> <<"Date: ">> \o invoice.invoice_date],
               [x |-> 100, y |-> 730, text |-> <<"Customer: ">> \o invoice.customer_name] >>
            \o DrawItems(invoice.items, 1, 700)
            \o << [x |-> 100, y |-> y - 30,
                   text |-> <<"Net Total: EUR">> \o Format2f(FSub(invoice.total_amount, invoice.tax_amount))],
                  [x |-> 100, y |-> y - 50,
                   text |-> <<"VAT (19%): EUR">> \o Format2f(invoice.tax_amount)],
                  [x |-> 100, y |-> y - 70,
                   text |-> <<"Grand Total: EUR">> \o Format2f(invoice.total_amount)] >> ]

(***************************************************************************)
(* PyMuPDF: a document is its base body, its PDF/A metadata and its        *)
(* embedded files.  An embedded file is the arguments embfile_add was      *)
(* given: nothing else is stored with it.                                  *)
(***************************************************************************)
None == [none |-> TRUE]

FitzOpen(buffer) == [body |-> buffer, pdfa |-> None, embfiles |-> <<>>]

PdfaMetadata(invoice) ==
    [ part          |-> 3,
      conformance   |-> "B",
      output_intent |-> "sRGB",
      creator       |-> <<"Your Company">>,
      title         |-> <<"Invoice ">> \o invoice.invoice_number ]

\* an attachment stored under the generic XML media type
EmbeddedFileApplicationXml(xml) ==
    [ name     |-> "ZUGFeRD-invoice.xml",
      buffer   |-> Encode(xml),
      filename |-> "/ZUGFeRD-invoice.xml",
      uf       |-> "/ZUGFeRD-invoice.xml",
      desc     |-> "ZUGFeRD 2.1 Basic Invoice",
      mime     |-> "application/xml" ]

EmbeddedFile(xml) ==
    [ name     |-> "ZUGFeRD-invoice.xml",
      buffer   |-> Encode(xml),
      filename |-> "/ZUGFeRD-invoice.xml",
      uf       |-> "/ZUGFeRD-invoice.xml",
      desc     |-> "ZUGFeRD 2.1 Basic Invoice",
      mime     |-> "text/xml" ]

embfile_add(doc, xml) == [doc EXCEPT !.embfiles = Append(@, EmbeddedFile(xml))]

(***************************************************************************)
(* The handler generate_validated_invoice.                                 *)
(***************************************************************************)
VatRate == FromDecimal(0, 19, 100)

Tolerance == FromDecimal(0, 1, 100)

\* expected_tax = round(data.total_amount * 0.19, 2)
ExpectedTax(d) == Round2(FMul(d.total_amount, VatRate))

\* abs(data.tax_amount - expected_tax) > 0.01
TaxMismatch(d, expected) == FGt(FAbs(FSub(d.tax_amount, expected)), Tolerance)

HTTPException(status, detail) == [type |-> "HTTPException", status_code |-> status, detail |-> detail]

LibraryError(where) == [type |-> "Exception", status_code |-> 0, detail |-> <<where>>]

TaxMismatchException(expected) ==
    HTTPException(400, <<"Tax amount mismatch. Expected EUR">> \o Format2f(expected) \o <<" for 19% VAT">>)

\* except Exception as e: raise HTTPException(status_code=500, detail=str(e))
Rethrow(e) == HTTPException(500, <<"str(">> \o e.detail \o <<")">>)

VARIABLES
    pc,            \* where the handler is
    request,       \* the JSON body received
    data,          \* the InvoiceData parsed from it
    expected_tax,  \* generate_validated_invoice: expected_tax
    pdf_buffer,    \* generate_pdf_with_zugferd: the rendered base document
    pdf,           \* generate_pdf_with_zugferd: the PyMuPDF document
    xml_data,      \* generate_pdf_with_zugferd: xml_data
    pdf_bytes,     \* the bytes generate_pdf_with_zugferd returned
    exc,           \* the exception in flight inside the try block
    response       \* what the client receives

vars == <<pc, request, data, expected_tax, pdf_buffer, pdf, xml_data, pdf_bytes, exc, response>>

Init ==
    /\ pc = "idle"
    /\ request = None
    /\ data = None
    /\ expected_tax = None
    /\ pdf_buffer = None
    /\ pdf = None
    /\ xml_data = <<>>
    /\ pdf_bytes = None
    /\ exc = None
    /\ response = None

\* FastAPI parses the body into InvoiceData and calls the handler
Receive ==
    /\ pc = "idle"
    /\ \E raw \in Requests :
          /\ request' = raw
          /\ data' = InvoiceData(raw)
    /\ pc' = "validate"
    /\ UNCHANGED <<expected_tax, pdf_buffer, pdf, xml_data, pdf_bytes, exc, response>>

\* a handler that computes the expected tax and never compares it
ValidateTaxSkipped ==
    /\ pc = "validate"
    /\ expected_tax' = ExpectedTax(data)
    /\ pc' = "render"
    /\ UNCHANGED <<request, data, pdf_buffer, pdf, xml_data, pdf_bytes, exc, response>>

\* lines 171-176
ValidateTax ==
    /\ pc = "validate"
    /\ expected_tax' = ExpectedTax(data)
    /\ IF TaxMismatch(data, expected_tax')
       THEN /\ exc' = TaxMismatchException(expected_tax')
            /\ pc' = "except"
       ELSE /\ exc' = exc
            /\ pc' = "render"
    /\ UNCHANGED <<request, data, pdf_buffer, pdf, xml_data, pdf_bytes, response>>

\* a library call of generate_pdf_with_zugferd that raises
Raise(at, where) ==
    /\ pc = at
    /\ exc' = LibraryError(where)
    /\ pc' = "except"
    /\ UNCHANGED <<request, data, expected_tax, pdf_buffer, pdf, xml_data, pdf_bytes, response>>

\* lines 110-137
RenderPdf ==
    \/ /\ pc = "render"
       /\ pdf_buffer' = Canvas(data)
       /\ pc' = "open"
       /\ UNCHANGED <<request, data, expected_tax, pdf, xml_data, pdf_bytes, exc, response>>
    \/ Raise("render", "reportlab")

\* line 140
OpenPdf ==
    \/ /\ pc = "open"
       /\ pdf' = FitzOpen(pdf_buffer)
       /\ pc' = "xml"
       /\ UNCHANGED <<request, data, expected_tax, pdf_buffer, xml_data, pdf_bytes, exc, response>>
    \/ Raise("open", "fitz.open")

\* line 141
GenerateXml ==
    /\ pc = "xml"
    /\ xml_data' = generate_zugferd_xml(data)
    /\ pc' = "pdfa"
    /\ UNCHANGED <<request, data, expected_tax, pdf_buffer, pdf, pdf_bytes, exc, response>>

\* lines 144-150
SetPdfaMetadata ==
    \/ /\ pc = "pdfa"
       /\ pdf' = [pdf EXCEPT !.pdfa = PdfaMetadata(data)]
       /\ pc' = "embed"
       /\ UNCHANGED <<request, data, expected_tax, pdf_buffer, xml_data, pdf_bytes, exc, response>>
    \/ Raise("pdfa", "set_pdfa_metadata")

\* lines 152-159
EmbedXml ==
    \/ /\ pc = "embed"
       /\ pdf' = embfile_add(pdf, xml_data)
       /\ pc' = "save"
       /\ UNCHANGED <<request, data, expected_tax, pdf_buffer, xml_data, pdf_bytes, exc, response>>
    \/ Raise("embed", "embfile_add")

\* lines 161-164
SavePdf ==
    \/ /\ pc = "save"
       /\ pdf_bytes' = [container |-> "pdf", doc |-> pdf]
       /\ pdf' = None
       /\ pc' = "respond"
       /\ UNCHANGED <<request, data, expected_tax, pdf_buffer, xml_data, exc, response>>
    \/ Raise("save", "save")

\* lines 179-183
Respond ==
    /\ pc = "respond"
    /\ response' =
          [ status_code |-> 200,
            media_type  |-> "application/pdf",
            headers     |-> <<"attachment; filename=invoice_">> \o data.invoice_number \o <<".pdf">>,
            body        |-> pdf_bytes ]
    /\ pc' = "done"
    /\ UNCHANGED <<request, data, expected_tax, pdf_buffer, pdf, xml_data, pdf_bytes, exc>>

\* lines 184-185
Except ==
    /\ pc = "except"
    /\ LET e == Rethrow(exc)
       IN  response' =
              [ status_code |-> e.status_code,
                media_type  |-> "application/json",
                headers     |-> <<>>,
                body        |-> [detail |-> e.detail] ]
    /\ pc' = "done"
    /\ UNCHANGED <<request, data, expected_tax, pdf_buffer, pdf, xml_data, pdf_bytes, exc>>

\* the response is sent; nothing of the request is kept
Finish ==
    /\ pc = "done"
    /\ pc' = "idle"
    /\ request' = None
    /\ data' = None
    /\ expected_tax' = None
    /\ pdf_buffer' = None
    /\ pdf' = None
    /\ xml_data' = <<>>
    /\ pdf_bytes' = None
    /\ exc' = None
    /\ response' = None

\* lines 187-189: GET /
health_check ==
    /\ pc = "idle"
    /\ response' =
          [ status_code |-> 200,
            media_type  |-> "application/json",
            headers     |-> <<>>,
            body        |-> [status |-> "OK", standard |-> "ZUGFeRD 2.1 Basic"] ]
    /\ pc' = "done"
    /\ UNCHANGED <<request, data, expected_tax, pdf_buffer, pdf, xml_data, pdf_bytes, exc>>

Next ==
    \/ Receive
    \/ ValidateTax
    \/ RenderPdf
    \/ OpenPdf
    \/ GenerateXml
    \/ SetPdfaMetadata
    \/ EmbedXml
    \/ SavePdf
    \/ Respond
    \/ Except
    \/ health_check
    \/ Finish

Spec == Init /\ [][Next]_vars

(***************************************************************************)
(* Reading a serialized document back.                                     *)
(***************************************************************************)
\* where the tokens of kind k for elements named tag are
Positions(xml, k, tag) ==
    SelectSeq([i \in 1..Len(xml) |-> i], LAMBDA i : xml[i].k = k /\ xml[i].tag = tag)

\* the text contents of the elements named tag, in document order
Texts(xml, tag) ==
    LET at == Positions(xml, "text", tag)
    IN  [j \in 1..Len(at) |-> xml[at[j]].text]

\* the start tags of the elements named tag, in document order
Starts(xml, tag) ==
    LET at == Positions(xml, "start", tag)
    IN  [j \in 1..Len(at) |-> xml[at[j]]]

\* the start and end tags of the elements named in tags, in document order
Outline(xml, tags) ==
    LET at == SelectSeq([i \in 1..Len(xml) |-> i],
                        LAMBDA i : xml[i].k \in {"start", "end"} /\ xml[i].tag \in tags)
    IN  [j \in 1..Len(at) |-> <<xml[at[j]].k, xml[at[j]].tag>>]

Abs(n) == IF n < 0 THEN -n ELSE n

\* an amount given in hundredths, written with two decimals
CentsText(c) ==
    (IF c < 0 THEN <<"-">> ELSE <<>>)
    \o DecimalDigits(Abs(c) \div 100)
    \o <<".", Digit[((Abs(c) % 100) \div 10) + 1], Digit[(Abs(c) % 10) + 1]>>

\* total * 19 / 100 in hundredths, rounded to the nearest, ties to even
ExactExpectedTax(total) ==
    LET q == (total * 19) \div 100
        r == (total * 19) % 100
    IN  IF r > 50 \/ (r = 50 /\ q % 2 = 1) THEN q + 1 ELSE q

IsDigit(ch) == \E d \in 1..10 : Digit[d] = ch

DigitValue(ch) == (CHOOSE d \in 1..10 : Digit[d] = ch) - 1

\* YYYY-MM-DD with a month 01..12 and a day 01..31
IsIsoDate(s) ==
    /\ Len(s) = 10
    /\ s[5] = "-" /\ s[8] = "-"
    /\ \A i \in {1, 2, 3, 4, 6, 7, 9, 10} : IsDigit(s[i])
    /\ DigitValue(s[6]) * 10 + DigitValue(s[7]) \in 1..12
    /\ DigitValue(s[9]) * 10 + DigitValue(s[10]) \in 1..31

\* the day a YYYY-MM-DD date names, as the number YYYYMMDD
DateNumber(s) ==
    (((DigitValue(s[1]) * 10 + DigitValue(s[2])) * 10 + DigitValue(s[3])) * 10 + DigitValue(s[4])) * 10000
    + (DigitValue(s[6]) * 10 + DigitValue(s[7])) * 100
    + DigitValue(s[9]) * 10 + DigitValue(s[10])

\* the handler is past its validation
Validated == pc \in {"render", "open", "xml", "pdfa", "embed", "save", "respond"}

\* a step of generate_pdf_with_zugferd has run
BuildStarted ==
    pdf_buffer # None \/ pdf # None \/ xml_data # <<>> \/ pdf_bytes # None

\* the tax check of lines 172-176 raised
TaxRejected == exc # None /\ exc.type = "HTTPException" /\ exc.status_code = 400

\* a library call raised
LibraryFailed == exc # None /\ exc.type = "Exception"

\* the request of the end-to-end scenario: INV-0001, one item Consulting at
\* 100.00, quantity 1, total 119.00
IsScenario(raw) ==
    /\ raw.invoice_number = <<"INV-0001">>
    /\ raw.items = <<[description |-> <<"Consulting">>, price |-> 10000, quantity |-> <<100>>]>>
    /\ raw.total_amount = 11900

(***************************************************************************)
(* Properties.                                                             *)
(***************************************************************************)

\* C1: with amounts read as exact two-decimal values, a request is rejected
\* by the tax check exactly when |tax_amount - round(total_amount * 19/100, 2)|
\* exceeds 0.01; so total 100.00 with tax 19.01 passes and 19.02 is rejected.
C1_TaxBoundary ==
    (request # None /\ expected_tax # None) =>
        (TaxRejected <=>
            Abs(request.tax_amount - ExactExpectedTax(request.total_amount)) > 1)

\* C2: the scenario request with tax_amount 19.00 is accepted (a success
\* response whenever no library call fails), and the tax block of the
\* embedded XML reads BasisAmount 100.00, RateApplicablePercent 19.00 and
\* CalculatedAmount 19.00.
C2_ScenarioAccepted ==
    (pc = "done" /\ request # None /\ IsScenario(request)
     /\ request.tax_amount = 1900 /\ ~LibraryFailed) =>
        /\ response.status_code = 200
        /\ LET xml == response.body.doc.embfiles[1].buffer.str
           IN  /\ Texts(xml, "ram:BasisAmount") = << <<"1", "0", "0", ".", "0", "0">> >>
               /\ Texts(xml, "ram:RateApplicablePercent") = << <<"19.00">> >>
               /\ Texts(xml, "ram:CalculatedAmount") = << <<"1", "9", ".", "0", "0">> >>

\* C3: a request that fails the tax check is answered with a client error
\* (HTTP 4xx), never with a server error and never with a success.
C3_TaxMismatchIsClientError ==
    (pc = "done" /\ TaxRejected) => response.status_code \in 400..499

\* C4: no step of generate_pdf_with_zugferd starts before the tax check has
\* passed, and for a request the check rejects no step runs and no document
\* bytes are produced or returned.
C4_FailFast ==
    /\ (request # None /\ (Validated \/ BuildStarted)) =>
          /\ expected_tax # None
          /\ ~FGt(FAbs(FSub(FromCents(request.tax_amount), expected_tax)), FromCents(1))
    /\ TaxRejected =>
          /\ ~BuildStarted
          /\ response # None => response.media_type # "application/pdf"

\* C4 witness: a rejected request has been answered and nothing was built
C4_RejectedAndAnswered ==
    pc = "done" /\ TaxRejected /\ response # None /\ ~BuildStarted

\* C5: every request for which a document is built has at least one line
\* item, every item has price >= 0 and quantity > 0, and its due date is a
\* date not earlier than its issue date.
C5_BuiltRequestsAreValid ==
    (request # None /\ (Validated \/ BuildStarted)) =>
        /\ Len(request.items) >= 1
        /\ \A i \in 1..Len(request.items) :
              /\ request.items[i].price >= 0
              /\ request.items[i].quantity # <<>> => request.items[i].quantity[1] > 0
        /\ IsIsoDate(request.invoice_date)
        /\ IsIsoDate(request.due_date)
        /\ DateNumber(request.due_date) >= DateNumber(request.invoice_date)

\* str(k) for the line identifiers
LineId == << <<"1">>, <<"2">>, <<"3">>, <<"4">>, <<"5">>, <<"6">>, <<"7">>, <<"8">>, <<"9">> >>

\* C6: for n items the XML has exactly n line-item blocks, in input order,
\* and block k carries the identifier str(k) and the description and the
\* price of item k, whatever the quantities and prices are.
C6_LineItemSequence ==
    xml_data # <<>> =>
        LET first == Positions(xml_data, "start", "ram:IncludedSupplyChainTradeLineItem")
            last  == Positions(xml_data, "end", "ram:IncludedSupplyChainTradeLineItem")
        IN  /\ Len(first) = Len(request.items)
            /\ Len(last) = Len(request.items)
            /\ \A k \in 1..Len(request.items) :
                  LET block == SubSeq(xml_data, first[k], last[k])
                  IN  /\ Texts(block, "ram:AssociatedDocumentLineDocument") = <<LineId[k]>>
                      /\ Texts(block, "ram:Name") = <<request.items[k].description>>
                      /\ Texts(block, "ram:ChargeAmount") = <<CentsText(request.items[k].price)>>

\* C6 witness: XML was produced for three items that differ in price and quantity
C6_ThreeItems ==
    /\ xml_data # <<>>
    /\ Len(request.items) = 3
    /\ request.items[1] # request.items[2]
    /\ request.items[2] # request.items[3]
    /\ request.items[1] # request.items[3]

BlockTags ==
    { "rsm:ExchangedDocumentContext", "rsm:ExchangedDocument",
      "ram:ApplicableHeaderTradeAgreement", "ram:SellerTradeParty", "ram:BuyerTradeParty",
      "ram:IncludedSupplyChainTradeLineItem",
      "ram:ApplicableHeaderTradeSettlement", "ram:TaxCurrencyCode",
      "ram:ApplicableTradeTax", "ram:SpecifiedTradePaymentTerms" }

LineItemOutline(n) ==
    [j \in 1..(2 * n) |->
        <<IF j % 2 = 1 THEN "start" ELSE "end", "ram:IncludedSupplyChainTradeLineItem">>]

\* C7: whatever the invoice and the number of items (zero included), the
\* blocks come in the order: document context, document header,
\* trade agreement (seller party, then buyer party), every line item,
\* settlement (currency code, tax, payment terms).
C7_BlockOrder ==
    xml_data # <<>> =>
        Outline(xml_data, BlockTags) =
            << <<"start", "rsm:ExchangedDocumentContext">>,
               <<"end", "rsm:ExchangedDocumentContext">>,
               <<"start", "rsm:ExchangedDocument">>,
               <<"end", "rsm:ExchangedDocument">>,
               <<"start", "ram:ApplicableHeaderTradeAgreement">>,
               <<"start", "ram:SellerTradeParty">>,
               <<"end", "ram:SellerTradeParty">>,
               <<"start", "ram:BuyerTradeParty">>,
               <<"end", "ram:BuyerTradeParty">>,
               <<"end", "ram:ApplicableHeaderTradeAgreement">> >>
            \o LineItemOutline(Len(request.items))
            \o << <<"start", "ram:ApplicableHeaderTradeSettlement">>,
                  <<"start", "ram:TaxCurrencyCode">>,
                  <<"end", "ram:TaxCurrencyCode">>,
                  <<"start", "ram:ApplicableTradeTax">>,
                  <<"end", "ram:ApplicableTradeTax">>,
                  <<"start", "ram:SpecifiedTradePaymentTerms">>,
                  <<"end", "ram:SpecifiedTradePaymentTerms">>,
                  <<"end", "ram:ApplicableHeaderTradeSettlement">> >>

\* C7 witness: XML was produced for an invoice with several items
C7_SeveralItems == xml_data # <<>> /\ Len(request.items) >= 2

\* C8: a container that generate_pdf_with_zugferd returned holds an
\* attachment named ZUGFeRD-invoice.xml of MIME type text/xml whose bytes
\* are the encoded output of generate_zugferd_xml for the same invoice.
C8_Packaging ==
    pdf_bytes # None =>
        \E i \in 1..Len(pdf_bytes.doc.embfiles) :
            LET file == pdf_bytes.doc.embfiles[i]
            IN  /\ file.name = "ZUGFeRD-invoice.xml"
                /\ file.mime = "text/xml"
                /\ file.buffer = Encode(generate_zugferd_xml(InvoiceData(request)))

\* C8 witness: the container was returned to the client
C8_ContainerReturned ==
    pc = "done" /\ response.status_code = 200 /\ response.body = pdf_bytes /\ pdf_bytes # None

\* C9: in a container that generate_pdf_with_zugferd returned, the embedded
\* XML carries an explicit relationship equal to "Data".
C9_RelationshipIsData ==
    pdf_bytes # None =>
        \A i \in 1..Len(pdf_bytes.doc.embfiles) :
            LET file == pdf_bytes.doc.embfiles[i]
            IN  /\ "afrelationship" \in DOMAIN file
                /\ file.afrelationship = "Data"

\* C10: whenever XML is produced, the issue date and the due date it
\* carries are each exactly 8 digits and each has the format code "102".
C10_DateFormat ==
    xml_data # <<>> =>
        /\ Len(Texts(xml_data, "udt:DateTimeString")) = 2
        /\ \A j \in 1..2 :
              LET date == Texts(xml_data, "udt:DateTimeString")[j]
              IN  Len(date) = 8 /\ \A i \in 1..8 : IsDigit(date[i])
        /\ \A j \in 1..2 :
              Starts(xml_data, "udt:DateTimeString")[j].attrib = <<<<"format", "102">>>>


=============================================================================
